---- MODULE Spec2Model ----
(***************************************************************************)
(* Model of tools/release.py: the release script that cleans, compiles,    *)
(* resolves the latest git tag, bumps the version, commits, pushes and     *)
(* publishes a release.                                                    *)
(*                                                                         *)
(* Python strings that are parsed or formatted (tags, version strings,     *)
(* command output) are sequences of one-character strings, so that         *)
(* formatting and parsing are computed and not assumed.  The characters    *)
(* that occur are the decimal digits, ".", "v", the letter "x" (standing   *)
(* for any character that no version may contain) and the newline that     *)
(* ends the output of git describe.  A packaging Version is modelled by    *)
(* its release tuple; epochs, pre/post/dev releases and local versions     *)
(* need characters outside this alphabet.                                  *)
(***************************************************************************)
EXTENDS Integers, Sequences, FiniteSets, TLC

VARIABLES
    pc,          \* position of the running process in __main__ / release()
    argv,        \* the positional command-line argument
    mode,        \* the mode release() and _bump_version receive
    tags,        \* tags of the repository, oldest first (git state)
    latest_tag,  \* release(): latest_tag, <<>> while unset
    new_tag,     \* release(): new_tag, <<>> while unset
    cmds,        \* external commands run by this process, with their outcome
    raised,      \* exception that ended the process, "none" otherwise
    exitCode,    \* exit status, meaningful when pc = "exited"
    published,   \* tags handed to gh release create that succeeded, in order
    runs,        \* number of processes started so far
    lostTag      \* some resolver command failed although a tag existed

vars == <<pc, argv, mode, tags, latest_tag, new_tag, cmds, raised, exitCode,
          published, runs, lostTag>>

\* Bounds of the model.
MaxComp == 1
MaxRuns == 2

(***************************************************************************)
(* Strings                                                                 *)
(***************************************************************************)
DigitChars == <<"0", "1", "2", "3", "4", "5", "6", "7", "8", "9">>

IsDigit(c) == \E i \in 1..10 : DigitChars[i] = c

DigitValue(c) == (CHOOSE i \in 1..10 : DigitChars[i] = c) - 1

Whitespace == {" ", "\n"}

\* f"{n}" for a non-negative int.
RECURSIVE FormatInt(_)
FormatInt(n) ==
    IF n < 10 THEN <<DigitChars[n + 1]>>
    ELSE FormatInt(n \div 10) \o <<DigitChars[(n % 10) + 1]>>

\* int(s) for a non-empty string of digits.
RECURSIVE ParseInt(_)
ParseInt(s) ==
    IF Len(s) = 0 THEN 0
    ELSE 10 * ParseInt(SubSeq(s, 1, Len(s) - 1)) + DigitValue(s[Len(s)])

\* ".".join(str(n) for n in release), as in f"{major}.{minor}.{micro}"
\* and in str(Version).
RECURSIVE FormatRelease(_)
FormatRelease(r) ==
    IF Len(r) = 0 THEN <<>>
    ELSE IF Len(r) = 1 THEN FormatInt(r[1])
    ELSE FormatInt(r[1]) \o <<".">> \o FormatRelease(Tail(r))

\* str.strip(): whitespace removed at both ends.
RECURSIVE LStripWs(_)
LStripWs(s) ==
    IF Len(s) > 0 /\ s[1] \in Whitespace THEN LStripWs(Tail(s)) ELSE s

RECURSIVE RStripWs(_)
RStripWs(s) ==
    IF Len(s) > 0 /\ s[Len(s)] \in Whitespace
    THEN RStripWs(SubSeq(s, 1, Len(s) - 1)) ELSE s

Strip(s) == LStripWs(RStripWs(s))

\* tag_str[1:] in place of lstrip('v'): the first character is dropped
\* whatever it is.
DropFirstChar(s) == IF Len(s) > 0 THEN Tail(s) ELSE s

\* str.lstrip('v'): every leading "v" removed.
RECURSIVE LStripV(_)
LStripV(s) ==
    IF Len(s) > 0 /\ s[1] = "v" THEN LStripV(Tail(s)) ELSE s

(***************************************************************************)
(* packaging.version                                                       *)
(***************************************************************************)
Returned(v) == [raised |-> "none", value |-> v]
Raised(e) == [raised |-> e, value |-> <<>>]

\* The segments of s between the "." characters.
RECURSIVE SplitDots(_, _)
SplitDots(s, cur) ==
    IF Len(s) = 0 THEN <<cur>>
    ELSE IF s[1] = "." THEN <<cur>> \o SplitDots(Tail(s), <<>>)
    ELSE SplitDots(Tail(s), Append(cur, s[1]))

IsNumber(seg) == Len(seg) > 0 /\ \A i \in 1..Len(seg) : IsDigit(seg[i])

\* packaging.version.parse / Version(...): surrounding whitespace and one
\* optional leading "v" are accepted, then the release segment
\* [0-9]+(\.[0-9]+)*; anything else raises InvalidVersion, a ValueError.
\* The result is the release tuple of the Version.
ParseVersion(s) ==
    LET t == Strip(s)
        u == IF Len(t) > 0 /\ t[1] = "v" THEN Tail(t) ELSE t
        segs == SplitDots(u, <<>>)
    IN  IF \A i \in 1..Len(segs) : IsNumber(segs[i])
        THEN Returned([i \in 1..Len(segs) |-> ParseInt(segs[i])])
        ELSE Raised("InvalidVersion")

(***************************************************************************)
(* BumpMode and _bump_version                                              *)
(***************************************************************************)
\* The values of the members of BumpMode.
BumpModeValues == {"major", "minor", "patch"}

\* A mode value is a BumpMode member, a plain str, or an object that is
\* not a string at all (kind "other").
Member(v) == [kind |-> "member", value |-> v]
Str(v) == [kind |-> "str", value |-> v]
NoMode == [kind |-> "other", value |-> "None"]

\* mode == BumpMode.X: BumpMode mixes in str, so the comparison is str's,
\* on the value; an object that is no string never compares equal.
ModeEq(m, v) == m.kind \in {"member", "str"} /\ m.value = v

\* Version(f"{major + 1}.0.0") and the like: the string is formatted and
\* parsed again.
VersionOf(release) == ParseVersion(FormatRelease(release))

\* _bump_version where minor mode forgets to reset the patch component.
BumpMinorKeepsPatch(version, m) ==
    IF Len(version) # 3 THEN Raised("ValueError")
    ELSE IF ModeEq(m, "major") THEN VersionOf(<<version[1] + 1, 0, 0>>)
    ELSE IF ModeEq(m, "minor") THEN VersionOf(<<version[1], version[2] + 1, version[3]>>)
    ELSE IF ModeEq(m, "patch") THEN VersionOf(<<version[1], version[2], version[3] + 1>>)
    ELSE Raised("ValueError")

\* _bump_version where major mode forgets the increment.
BumpMajorNoIncrement(version, m) ==
    IF Len(version) # 3 THEN Raised("ValueError")
    ELSE IF ModeEq(m, "major") THEN VersionOf(<<version[1], 0, 0>>)
    ELSE IF ModeEq(m, "minor") THEN VersionOf(<<version[1], version[2] + 1, 0>>)
    ELSE IF ModeEq(m, "patch") THEN VersionOf(<<version[1], version[2], version[3] + 1>>)
    ELSE Raised("ValueError")

\* _bump_version where the last branch is a plain else: any other mode
\* bumps the patch component.
BumpDefaultsToPatch(version, m) ==
    IF Len(version) # 3 THEN Raised("ValueError")
    ELSE IF ModeEq(m, "major") THEN VersionOf(<<version[1] + 1, 0, 0>>)
    ELSE IF ModeEq(m, "minor") THEN VersionOf(<<version[1], version[2] + 1, 0>>)
    ELSE VersionOf(<<version[1], version[2], version[3] + 1>>)

\* _bump_version(version, mode); version is a release tuple.  The unpacking
\* of version.release raises ValueError unless it has three components.
_bump_version(version, m) ==
    IF Len(version) # 3 THEN Raised("ValueError")
    ELSE LET major == version[1]
             minor == version[2]
             micro == version[3]
         IN  IF ModeEq(m, "major") THEN VersionOf(<<major + 1, 0, 0>>)
             ELSE IF ModeEq(m, "minor") THEN VersionOf(<<major, minor + 1, 0>>)
             ELSE IF ModeEq(m, "patch") THEN VersionOf(<<major, minor, micro + 1>>)
             ELSE Raised("ValueError")

(***************************************************************************)
(* Inputs                                                                  *)
(***************************************************************************)
CompValues == (0..MaxComp) \cup {9}

Triples == {<<a, b, c>> : a \in CompValues, b \in CompValues, c \in CompValues}

\* Tags a repository may carry: versions X.Y.Z bare, with one "v" and with
\* two, and tags that are no three-component version.
TagInputs ==
    {FormatRelease(t) : t \in Triples}
    \cup {<<"v">> \o FormatRelease(t) : t \in Triples}
    \cup {<<"v", "v">> \o FormatRelease(t) : t \in Triples}
    \cup {FormatRelease(<<a, b>>) : a \in 0..MaxComp, b \in 0..MaxComp}
    \cup {<<"v">> \o FormatRelease(<<a>>) : a \in 0..MaxComp}
    \cup {FormatRelease(<<a, 0, 0, b>>) : a \in 0..MaxComp, b \in 0..MaxComp}
    \cup {<<"x">>, <<"v">>, <<"v", "x">>, <<"1", ".", "2", ".", "x">>,
          <<"0", "1", ".", "0", "2", ".", "0", "3">>}

\* Command lines: the three choices and arguments outside them.
ArgvInputs == BumpModeValues \cup {"Major", "all", ""}

\* Mode values _bump_version may be called with.
ModeInputs ==
    {Member(v) : v \in BumpModeValues}
    \cup {Str(v) : v \in ArgvInputs}
    \cup {NoMode}

\* Versions _bump_version may be called with.
VersionInputs == Triples \cup {<<1>>, <<1, 2>>, <<1, 0, 0, 1>>}

(***************************************************************************)
(* The process                                                             *)
(***************************************************************************)
\* _cmd(*args): the command is run, whatever its outcome.
_cmd(name, ok) == Append(cmds, [cmd |-> name, ok |-> ok])

\* check=True: a failing command raises CalledProcessError; uncaught, it
\* ends the process with a traceback and status 1.
Uncaught(e) ==
    /\ pc' = "exited"
    /\ raised' = e
    /\ exitCode' = 1

\* A command run without check=True: its failure goes unnoticed.
StepNoCheck(at, name, next) ==
    /\ pc = at
    /\ \E ok \in BOOLEAN :
        /\ cmds' = _cmd(name, ok)
        /\ pc' = next
        /\ UNCHANGED <<raised, exitCode>>

\* A command of release() outside any try block.
Step(at, name, next) ==
    /\ pc = at
    /\ \E ok \in BOOLEAN :
        /\ cmds' = _cmd(name, ok)
        /\ IF ok THEN pc' = next /\ UNCHANGED <<raised, exitCode>>
                 ELSE Uncaught("CalledProcessError")

\* __main__ without the choices: any argument reaches release().
ParseArgsNoChoices ==
    /\ pc = "parse_args"
    /\ mode' = Str(argv)
    /\ pc' = "cleanup"
    /\ UNCHANGED <<argv, tags, latest_tag, new_tag, cmds, raised, exitCode,
                   published, runs, lostTag>>

\* __main__: argparse with choices=[mode.value for mode in BumpMode].
ParseArgs ==
    /\ pc = "parse_args"
    /\ IF argv \in BumpModeValues
       THEN /\ mode' = Str(argv)
            /\ pc' = "cleanup"
            /\ UNCHANGED <<raised, exitCode>>
       ELSE /\ pc' = "exited"
            /\ raised' = "SystemExit"
            /\ exitCode' = 2
            /\ UNCHANGED mode
    /\ UNCHANGED <<argv, tags, latest_tag, new_tag, cmds, published, runs, lostTag>>

\* release(): _cleanup()
Cleanup ==
    /\ Step("cleanup", "git clean", "compile")
    /\ UNCHANGED <<argv, mode, tags, latest_tag, new_tag, published, runs, lostTag>>

\* release(): _compile()
Compile ==
    /\ Step("compile", "latexmk", "fetch")
    /\ UNCHANGED <<argv, mode, tags, latest_tag, new_tag, published, runs, lostTag>>

\* The except branch of _get_latest_tag.
DefaultVersion == ParseVersion(<<"0", ".", "0", ".", "0">>).value

\* _get_latest_tag, from the output of git describe on.
ResolveTag(stdout) ==
    LET tag_str == LStripV(Strip(stdout))
        v == ParseVersion(tag_str)
    IN  IF v.raised = "none" THEN v.value ELSE DefaultVersion

\* git describe --tags --abbrev=0 prints the latest tag and a newline.
DescribeOutput == tags[Len(tags)] \o <<"\n">>

\* _get_latest_tag: git fetch --tags, inside the try block.
Fetch ==
    /\ pc = "fetch"
    /\ \E ok \in BOOLEAN :
        /\ cmds' = _cmd("git fetch", ok)
        /\ IF ok THEN pc' = "describe" /\ UNCHANGED latest_tag
                 ELSE pc' = "bump" /\ latest_tag' = DefaultVersion
        /\ lostTag' = (lostTag \/ (~ok /\ tags # <<>>))
    /\ UNCHANGED <<argv, mode, tags, new_tag, raised, exitCode, published, runs>>

\* _get_latest_tag: git describe, strip, lstrip, parse.  git describe fails
\* when there is no tag, and may fail for other reasons.
Describe ==
    /\ pc = "describe"
    /\ \E ok \in (IF tags = <<>> THEN {FALSE} ELSE BOOLEAN) :
        /\ cmds' = _cmd("git describe", ok)
        /\ latest_tag' = IF ok THEN ResolveTag(DescribeOutput) ELSE DefaultVersion
        /\ lostTag' = (lostTag \/ (~ok /\ tags # <<>>))
    /\ pc' = "bump"
    /\ UNCHANGED <<argv, mode, tags, new_tag, raised, exitCode, published, runs>>

\* A bump that overwrites the version it was given.
BumpStepInPlace ==
    /\ pc = "bump"
    /\ LET r == _bump_version(latest_tag, mode)
       IN  IF r.raised = "none"
           THEN /\ new_tag' = r.value
                /\ latest_tag' = r.value
                /\ pc' = "add"
                /\ UNCHANGED <<raised, exitCode>>
           ELSE /\ Uncaught("ValueError")
                /\ UNCHANGED <<new_tag, latest_tag>>
    /\ UNCHANGED <<argv, mode, tags, cmds, published, runs, lostTag>>

\* release(): new_tag = _bump_version(latest_tag, mode)
BumpStep ==
    /\ pc = "bump"
    /\ LET r == _bump_version(latest_tag, mode)
       IN  IF r.raised = "none"
           THEN /\ new_tag' = r.value
                /\ pc' = "add"
                /\ UNCHANGED <<raised, exitCode>>
           ELSE /\ Uncaught("ValueError")
                /\ UNCHANGED new_tag
    /\ UNCHANGED <<argv, mode, tags, latest_tag, cmds, published, runs, lostTag>>

\* release(): git add .
Add ==
    /\ Step("add", "git add", "commit")
    /\ UNCHANGED <<argv, mode, tags, latest_tag, new_tag, published, runs, lostTag>>

\* git commit whose failure (nothing to commit) is ignored.
CommitNoCheck ==
    /\ pc = "commit"
    /\ \E ok \in BOOLEAN : cmds' = _cmd("git commit", ok)
    /\ pc' = "push"
    /\ UNCHANGED <<argv, mode, tags, latest_tag, new_tag, raised, exitCode,
                   published, runs, lostTag>>

\* release(): git commit -a -m msg
Commit ==
    /\ Step("commit", "git commit", "push")
    /\ UNCHANGED <<argv, mode, tags, latest_tag, new_tag, published, runs, lostTag>>

\* release(): git push
Push ==
    /\ Step("push", "git push", "publish")
    /\ UNCHANGED <<argv, mode, tags, latest_tag, new_tag, published, runs, lostTag>>

\* A tag named with a prefix that is not "v".
TagNameOtherPrefix(version) == <<"x">> \o FormatRelease(version)

\* f"v{new_tag}"
TagName(version) == <<"v">> \o FormatRelease(version)

\* release(): gh release create v{new_tag}; the release carries the tag.
Publish ==
    /\ pc = "publish"
    /\ \E ok \in BOOLEAN :
        /\ cmds' = _cmd("gh release create", ok)
        /\ IF ok
           THEN /\ pc' = "cleanup_again"
                /\ tags' = Append(tags, TagName(new_tag))
                /\ published' = Append(published, TagName(new_tag))
                /\ UNCHANGED <<raised, exitCode>>
           ELSE /\ Uncaught("CalledProcessError")
                /\ UNCHANGED <<tags, published>>
    /\ UNCHANGED <<argv, mode, latest_tag, new_tag, runs, lostTag>>

\* release(): the second _cleanup(), then the end of the script.
CleanupAgain ==
    /\ pc = "cleanup_again"
    /\ \E ok \in BOOLEAN :
        /\ cmds' = _cmd("git clean", ok)
        /\ IF ok THEN pc' = "exited" /\ exitCode' = 0 /\ UNCHANGED raised
                 ELSE Uncaught("CalledProcessError")
    /\ UNCHANGED <<argv, mode, tags, latest_tag, new_tag, published, runs, lostTag>>

\* The script is started again on the same repository.
StartRun ==
    /\ pc = "exited"
    /\ runs < MaxRuns
    /\ runs' = runs + 1
    /\ pc' = "parse_args"
    /\ argv' \in ArgvInputs
    /\ mode' = NoMode
    /\ latest_tag' = <<>>
    /\ new_tag' = <<>>
    /\ cmds' = <<>>
    /\ raised' = "none"
    /\ exitCode' = 0
    /\ UNCHANGED <<tags, published, lostTag>>

Init ==
    /\ pc = "parse_args"
    /\ argv \in ArgvInputs
    /\ mode = NoMode
    /\ tags \in {<<>>} \cup {<<t>> : t \in TagInputs}
    /\ latest_tag = <<>>
    /\ new_tag = <<>>
    /\ cmds = <<>>
    /\ raised = "none"
    /\ exitCode = 0
    /\ published = <<>>
    /\ runs = 1
    /\ lostTag = FALSE

Next ==
    \/ ParseArgs
    \/ Cleanup
    \/ Compile
    \/ Fetch
    \/ Describe
    \/ BumpStep
    \/ Add
    \/ Commit
    \/ Push
    \/ Publish
    \/ CleanupAgain
    \/ StartRun

Spec == Init /\ [][Next]_vars

\* _bump_version on its own: called once with any version and any mode.
InitBump ==
    /\ pc = "bump"
    /\ argv = ""
    /\ mode \in ModeInputs
    /\ tags = <<>>
    /\ latest_tag \in VersionInputs
    /\ new_tag = <<>>
    /\ cmds = <<>>
    /\ raised = "none"
    /\ exitCode = 0
    /\ published = <<>>
    /\ runs = 1
    /\ lostTag = FALSE

NextBump == BumpStep

SpecBump == InitBump /\ [][NextBump]_vars

(***************************************************************************)
(* Properties                                                              *)
(***************************************************************************)
Last(s) == s[Len(s)]

IsPrefix(s, t) == Len(s) <= Len(t) /\ s = SubSeq(t, 1, Len(s))

\* Lexicographic order on (major, minor, patch).
LexLess(a, b) ==
    \/ a[1] < b[1]
    \/ a[1] = b[1] /\ a[2] < b[2]
    \/ a[1] = b[1] /\ a[2] = b[2] /\ a[3] < b[3]

IsBumpMode(m) == m.kind \in {"member", "str"} /\ m.value \in BumpModeValues

ResolverCmds == {"git fetch", "git describe"}

Invoked(name) == \E i \in 1..Len(cmds) : cmds[i].cmd = name

Succeeded(name) == \E i \in 1..Len(cmds) : cmds[i].cmd = name /\ cmds[i].ok

\* The latest tag was read by git describe and the resolver has returned.
Described == pc = "bump" /\ cmds # <<>> /\ Last(cmds) = [cmd |-> "git describe", ok |-> TRUE]

\* C1: for a three-component version and a mode major, minor or patch,
\* _bump_version returns (major+1, 0, 0), (major, minor+1, 0) or
\* (major, minor, patch+1) respectively.
C1_BumpResult ==
    (pc # "bump" /\ Len(latest_tag) = 3 /\ IsBumpMode(mode)) =>
        /\ pc = "add"
        /\ raised = "none"
        /\ mode.value = "major" => new_tag = <<latest_tag[1] + 1, 0, 0>>
        /\ mode.value = "minor" => new_tag = <<latest_tag[1], latest_tag[2] + 1, 0>>
        /\ mode.value = "patch" => new_tag = <<latest_tag[1], latest_tag[2], latest_tag[3] + 1>>

C1_Witness ==
    /\ pc = "add"
    /\ mode = Member("minor")
    /\ latest_tag = <<1, 9, 9>>
    /\ new_tag = <<1, 10, 0>>

\* C2: whatever _bump_version returns is strictly greater than the version
\* it was given, in the lexicographic order on (major, minor, patch).
C2_StrictlyGreater ==
    (pc = "add" /\ Len(latest_tag) = 3) =>
        Len(new_tag) = 3 /\ LexLess(latest_tag, new_tag)

C2_Witness ==
    /\ pc = "add"
    /\ mode = Str("major")
    /\ latest_tag = <<0, 9, 9>>
    /\ new_tag = <<1, 0, 0>>

\* C3: whenever the resolution of the latest tag fails (a resolver command
\* fails, there is no tag, or the tag is not a three-component version once
\* its prefix is stripped), the resolver supplies (0,0,0) and the run does
\* not abort in the bump.
IsThreeComponent(s) ==
    LET segs == SplitDots(s, <<>>)
    IN  Len(segs) = 3 /\ \A i \in 1..3 : IsNumber(segs[i])

ResolutionFailed ==
    \/ \E i \in 1..Len(cmds) : cmds[i].cmd \in ResolverCmds /\ ~cmds[i].ok
    \/ tags = <<>>
    \/ ~IsThreeComponent(LStripV(Last(tags)))

C3_FallbackOnAnyFailure ==
    /\ (pc = "bump" /\ ResolutionFailed) => latest_tag = <<0, 0, 0>>
    /\ (pc = "exited" /\ raised = "ValueError") => ~ResolutionFailed

\* C4 as stated: a failing external command, the resolver's included, is
\* the last command of the run and the exit status is not zero; status zero
\* only if every command succeeded.
C4_AnyFailureAborts ==
    /\ \A i \in 1..Len(cmds) :
        ~cmds[i].ok => (i = Len(cmds) /\ pc = "exited" /\ exitCode # 0)
    /\ (pc = "exited" /\ exitCode = 0) => \A i \in 1..Len(cmds) : cmds[i].ok

\* C4, amended: a failing external command other than the resolver's git
\* fetch and git describe is the last command of the run and the exit
\* status is not zero; status zero only if every such command succeeded; a
\* failing git fetch or git describe never ends the run.
C4_FailureOutsideResolverAborts ==
    /\ \A i \in 1..Len(cmds) :
        (~cmds[i].ok /\ cmds[i].cmd \notin ResolverCmds) =>
            (i = Len(cmds) /\ pc = "exited" /\ exitCode # 0)
    /\ (pc = "exited" /\ exitCode = 0) =>
        \A i \in 1..Len(cmds) : cmds[i].ok \/ cmds[i].cmd \in ResolverCmds
    /\ (cmds # <<>> /\ Last(cmds).cmd \in ResolverCmds /\ ~Last(cmds).ok) =>
        (raised # "CalledProcessError" /\ latest_tag = <<0, 0, 0>>)

C4_Witness ==
    /\ pc = "exited"
    /\ exitCode = 1
    /\ raised = "CalledProcessError"
    /\ Last(cmds) = [cmd |-> "git push", ok |-> FALSE]
    /\ cmds[3] = [cmd |-> "git fetch", ok |-> FALSE]

\* C5: called with a mode that is none of major, minor, patch, member or
\* plain string, _bump_version raises ValueError and returns no version.
C5_InvalidModeRaises ==
    (pc # "bump" /\ ~IsBumpMode(mode)) =>
        /\ pc = "exited"
        /\ raised = "ValueError"
        /\ exitCode # 0
        /\ new_tag = <<>>

C5_Witness ==
    /\ pc = "exited"
    /\ mode = Str("Major")
    /\ latest_tag = <<1, 0, 9>>
    /\ raised = "ValueError"

\* C6: with an argument outside major, minor, patch the process never
\* enters release(): no mode is passed on and no external command is run.
C6_InvalidArgumentRejected ==
    argv \notin BumpModeValues =>
        /\ pc \in {"parse_args", "exited"}
        /\ mode = NoMode
        /\ cmds = <<>>
        /\ new_tag = <<>>
        /\ pc = "exited" => (exitCode # 0 /\ raised = "SystemExit")

C6_Witness ==
    /\ pc = "exited"
    /\ argv = "Major"
    /\ exitCode = 2
    /\ cmds = <<>>

\* C7: a latest tag "v" followed by X.Y.Z resolves to (X,Y,Z), and so does
\* the tag X.Y.Z without the prefix.
C7_PrefixStripped ==
    \A t \in Triples :
        (Described /\ Last(tags) \in {FormatRelease(t), <<"v">> \o FormatRelease(t)})
            => latest_tag = t

C7_Witness ==
    /\ Described
    /\ Last(tags) = <<"v", "9", ".", "1", ".", "0">>
    /\ latest_tag = <<9, 1, 0>>

\* C8: the bump runs no external command, leaves the tags of the repository
\* and the published releases alone, and does not change the version or
\* the mode it is given.
C8_BumpHasNoEffect ==
    [][pc = "bump" =>
        /\ cmds' = cmds
        /\ tags' = tags
        /\ published' = published
        /\ latest_tag' = latest_tag
        /\ mode' = mode]_vars

C8_Witness ==
    /\ pc = "add"
    /\ latest_tag = <<1, 1, 9>>
    /\ new_tag = <<1, 1, 10>>
    /\ Len(cmds) = 4
    /\ Len(tags) = 1

\* C9: the commands of a run follow the order clean, compile, fetch and
\* describe (the resolver), add, commit, push, publish, clean; the bump
\* comes between the resolver and git add; a command runs only after the
\* one before it succeeded, the resolver recovering from its own failures;
\* so a release is published only after compile, commit and push succeeded
\* and the last clean runs only after the release was published.
CmdNames == [i \in 1..Len(cmds) |-> cmds[i].cmd]

FullOrder ==
    <<"git clean", "latexmk", "git fetch", "git describe", "git add",
      "git commit", "git push", "gh release create", "git clean">>

NoDescribeOrder ==
    <<"git clean", "latexmk", "git fetch", "git add",
      "git commit", "git push", "gh release create", "git clean">>

C9_FixedOrder ==
    /\ IF Len(cmds) >= 3 /\ ~cmds[3].ok
       THEN IsPrefix(CmdNames, NoDescribeOrder)
       ELSE IsPrefix(CmdNames, FullOrder)
    /\ \A i \in 1..(Len(cmds) - 1) : cmds[i].ok \/ cmds[i].cmd \in ResolverCmds
    /\ Invoked("git add") =>
        /\ Len(latest_tag) = 3
        /\ Len(new_tag) = 3
        /\ LexLess(latest_tag, new_tag)
    /\ Invoked("gh release create") =>
        /\ Succeeded("latexmk")
        /\ Succeeded("git commit")
        /\ Succeeded("git push")
    /\ (Len(cmds) > 1 /\ Last(cmds).cmd = "git clean") =>
        /\ cmds[Len(cmds) - 1] = [cmd |-> "gh release create", ok |-> TRUE]
        /\ published # <<>>
        /\ Last(published) = Last(tags)

C9_Witness ==
    /\ pc = "exited"
    /\ exitCode = 0
    /\ CmdNames = FullOrder
    /\ \A i \in 1..Len(cmds) : cmds[i].ok

\* C10: a published tag is "v" followed by the bumped version and resolves
\* to that version again; as long as no resolver command failed while the
\* repository had a tag, the published versions are strictly increasing and
\* no tag name is published twice.
Resolved(tag) == ResolveTag(tag \o <<"\n">>)

C10_RoundTripAndIncreasing ==
    /\ pc = "cleanup_again" =>
        /\ published # <<>>
        /\ Last(published) = <<"v">> \o FormatRelease(new_tag)
        /\ Resolved(Last(published)) = new_tag
        /\ Last(tags) = Last(published)
    /\ \A i \in 1..Len(published) :
        /\ Len(Resolved(published[i])) = 3
        /\ published[i] = <<"v">> \o FormatRelease(Resolved(published[i]))
    /\ ~lostTag =>
        \A i \in 1..Len(published) : \A j \in 1..Len(published) :
            i < j => /\ LexLess(Resolved(published[i]), Resolved(published[j]))
                     /\ published[i] # published[j]

C10_Witness ==
    /\ ~lostTag
    /\ Len(tags) = 2
    /\ published = << <<"v", "0", ".", "1", ".", "0">>,
                     <<"v", "0", ".", "1", ".", "1">> >>
    /\ pc = "exited"
    /\ exitCode = 0

====
